---- MODULE Spec2Model ----
(***************************************************************************)
(* The multi-feed MPEG-TS -> HLS muxer example of gohlslib                 *)
(* (examples/muxer/main.go), as a state machine.                           *)
(*                                                                         *)
(* The process is the main goroutine, one goroutine per configured feed    *)
(* (setupMPEGTSReader) and the HTTP server goroutine (handleM3u8Urls).     *)
(* An unrecovered panic in any goroutine ends the whole process.           *)
(*                                                                         *)
(* Text (paths, names, manifest) is a sequence of tokens; string           *)
(* operations of the code (Split, Contains, +) work on these sequences.    *)
(*                                                                         *)
(* Spec is that program. SpecSingle is the single-feed program of the same *)
(* file, SpecNoMap the multi-feed program without muxMap of the second     *)
(* source file. SpecNormalizer, SpecManifest, SpecParse and SpecLookup run *)
(* parts of Spec over wider inputs.                                        *)
(***************************************************************************)
EXTENDS Integers, Sequences, FiniteSets, TLC

\* ------------------------------------------------------------------ bounds

\* Feeds in the -udps list.
MaxFeeds == 2

\* Access units the readers deliver in one run, all feeds together.
MaxAUs == 2

\* Access units of the one feed whose raw PTS ranges over the whole clock.
MaxSamples == 3

\* The PTS clock modulus (2^33 in MPEG-TS), scaled down.
Modulus == 32

\* Tokens in the resolution field of a record.
MaxResolutionLen == 3

\* Tokens in a -udps value, for the values tried exhaustively.
MaxFlagLen == 7

\* ------------------------------------------------------------------- text

\* strings.Contains(s, substr)
Contains(s, substr) ==
    \E k \in 0..(Len(s) - Len(substr)) : SubSeq(s, k + 1, k + Len(substr)) = substr

RECURSIVE SplitFrom(_, _, _)
SplitFrom(s, sep, cur) ==
    IF s = << >> THEN << cur >>
    ELSE IF Head(s) = sep THEN << cur >> \o SplitFrom(Tail(s), sep, << >>)
    ELSE SplitFrom(Tail(s), sep, Append(cur, Head(s)))

\* strings.Split(s, sep), sep one token
Split(s, sep) == SplitFrom(s, sep, << >>)

\* ------------------------------------------------------------ descriptors

\* Variant names given in the feed list.
Name480 == << "480p" >>

Name720 == << "720p" >>

\* type UDPAddressInfo
UDPAddressInfo(address, name, resolution, bandwidth) ==
    [Address |-> address, Name |-> name, Resolution |-> resolution, Bandwidth |-> bandwidth]

\* The records a -udps list can hold: two well-formed feeds, and a third that
\* repeats the first one's name and the second one's address and has a
\* resolution without an "x".
Descriptors ==
    { UDPAddressInfo(<< ":9000" >>, Name480, << "640", "x", "360" >>, << "200000" >>),
      UDPAddressInfo(<< ":9001" >>, Name720, << "1280", "x", "720" >>, << "1000000" >>),
      UDPAddressInfo(<< ":9001" >>, Name480, << "720" >>, << "500000" >>) }

RECURSIVE SeqsUpTo(_, _)
SeqsUpTo(S, n) ==
    IF n = 0 THEN { << >> }
    ELSE LET shorter == SeqsUpTo(S, n - 1)
         IN  shorter \cup { Append(s, x) : s \in { t \in shorter : Len(t) = n - 1 }, x \in S }

\* What parseUDPAddresses can return for some -udps value.
FeedLists == SeqsUpTo(Descriptors, MaxFeeds)

\* What parseUDPAddresses has in hand: the records appended to result, and
\* the entries printed as "Invalid UDP address format".
NoneParsed == [result |-> << >>, invalid |-> << >>]

\* ParsePair with an entry of more than 4 fields taken as a record too.
ParsePairAtLeastFour(acc, pair) ==
    LET parts == Split(pair, "|")
    IN  IF Len(parts) >= 4
        THEN [acc EXCEPT !.result =
                 Append(@, UDPAddressInfo(parts[1], parts[2], parts[3], parts[4]))]
        ELSE [acc EXCEPT !.invalid = Append(@, pair)]

\* parseUDPAddresses, the loop body for one entry of the list.
ParsePair(acc, pair) ==
    LET parts == Split(pair, "|")
    IN  IF Len(parts) = 4
        THEN [acc EXCEPT !.result =
                 Append(@, UDPAddressInfo(parts[1], parts[2], parts[3], parts[4]))]
        ELSE [acc EXCEPT !.invalid = Append(@, pair)]

RECURSIVE ParsePairs(_, _)
\* parseUDPAddresses, the loop over the entries.
ParsePairs(acc, pairs) ==
    IF pairs = << >> THEN acc ELSE ParsePairs(ParsePair(acc, Head(pairs)), Tail(pairs))

\* parseUDPAddresses(input)
parseUDPAddresses(input) ==
    IF input = << >> THEN NoneParsed ELSE ParsePairs(NoneParsed, Split(input, ","))

\* 'address|name|resolution|bandwidth', the text of one record.
FormatPair(info) ==
    info.Address \o << "|" >> \o info.Name \o << "|" >> \o info.Resolution
    \o << "|" >> \o info.Bandwidth

RECURSIVE FormatUDPAddresses(_)
\* 'address|name|resolution|bandwidth,address|name|resolution|bandwidth,...',
\* the -udps value that lists the given records.
FormatUDPAddresses(infos) ==
    IF infos = << >> THEN << >>
    ELSE IF Len(infos) = 1 THEN FormatPair(infos[1])
    ELSE FormatPair(Head(infos)) \o << "," >> \o FormatUDPAddresses(Tail(infos))

\* --------------------------------------------------------------- manifest

header == << "#EXTM3U\n#EXT-X-VERSION:9\n#EXT-X-INDEPENDENT-SEGMENTS\n\n" >>

\* StreamInfBlock with a resolution of more than two parts taken as well.
StreamInfBlockAtLeastTwo(bandwidth, resolution, link) ==
    LET codecs    == "avc1.42c01f"
        frameRate == "24.000"
        resSplit  == Split(resolution, "x")
    IN  IF Len(resSplit) >= 2
        THEN << "#EXT-X-STREAM-INF:BANDWIDTH=" >> \o bandwidth
             \o << ",AVERAGE-BANDWIDTH=" >> \o bandwidth
             \o << ",CODECS=", codecs, ",RESOLUTION=" >> \o resolution
             \o << ",FRAME-RATE=", frameRate, "\n" >>
             \o << link >> \o resSplit[2] \o << "p.m3u8\n\n" >>
        ELSE << >>

\* The two Sprintf lines of GenerateM3U8String; link is the playlist name's
\* first part, which differs between the revisions of the function.
StreamInfBlock(bandwidth, resolution, link) ==
    LET codecs    == "avc1.42c01f"
        frameRate == "24.000"
        resSplit  == Split(resolution, "x")
    IN  IF Len(resSplit) = 2
        THEN << "#EXT-X-STREAM-INF:BANDWIDTH=" >> \o bandwidth
             \o << ",AVERAGE-BANDWIDTH=" >> \o bandwidth
             \o << ",CODECS=", codecs, ",RESOLUTION=" >> \o resolution
             \o << ",FRAME-RATE=", frameRate, "\n" >>
             \o << link >> \o resSplit[2] \o << "p.m3u8\n\n" >>
        ELSE << >>

\* GenerateM3U8String of the multi-feed program
GenerateM3U8String(bandwidth, resolution) == StreamInfBlock(bandwidth, resolution, "stream_")

\* GenerateM3U8String of the single-feed program
GenerateM3U8StringSingle(bandwidth, resolution) == StreamInfBlock(bandwidth, resolution, "video_")

RECURSIVE StreamInfBlocks(_)
\* The blocks of all descriptors, in list order.
StreamInfBlocks(infos) ==
    IF infos = << >> THEN << >>
    ELSE GenerateM3U8String(Head(infos).Bandwidth, Head(infos).Resolution)
         \o StreamInfBlocks(Tail(infos))

\* A read of m3u8String that overlaps its write (a data race on a string).
TornString == << "<torn>" >>

\* -------------------------------------------------------- timestamp decoder

\* The largest forward step the decoder takes as forward: a difference above
\* it is read as a step backwards.
NegativeThreshold == (Modulus - 1) \div 2

\* var timeDec *mpegts.TimeDecoder, before its first assignment
NilTimeDecoder == [alloc |-> FALSE, tsPrev |-> 0, tsOverall |-> 0]

\* mpegts.NewTimeDecoder(start): the first raw sample is the epoch.
NewTimeDecoder(start) == [alloc |-> TRUE, tsPrev |-> start, tsOverall |-> 0]

\* The signed difference ts - prev modulo the clock modulus.
SignedDiff(ts, prev) ==
    LET diff == (ts - prev) % Modulus
    IN  IF diff > NegativeThreshold THEN diff - Modulus ELSE diff

\* (*TimeDecoder).Decode(ts): the decoder after the call; its tsOverall is the
\* value returned, in clock ticks.
Decode(d, ts) ==
    [alloc |-> TRUE, tsPrev |-> ts, tsOverall |-> d.tsOverall + SignedDiff(ts, d.tsPrev)]

\* The raw PTS values the readers deliver: one before the wrap of the clock,
\* one after it.
RawSamples == { Modulus - 5, 3 }

\* ------------------------------------------------------------------ state

VARIABLES
    udpAddresses, \* the value of the -udps flag
    invalidPairs, \* the entries reported as "Invalid UDP address format"
    udpInfo,      \* the feed descriptors parseUDPAddresses returned
    procState,    \* "running", "crashed" (unrecovered panic) or "exited" (main returned)
    panicked,     \* the panics raised so far: [who, cause], who = 0 for main
    mainPc,       \* main's position
    loopIndex,    \* main's position in udpInfo (1-based)
    m3u8String,   \* the package-level manifest text
    m3u8Writing,  \* main is inside its assignment to m3u8String
    bound,        \* addresses of the open UDP sockets
    wgCount,      \* the WaitGroup counter
    muxMap,       \* variant name -> muxer (by id)
    muxState,     \* per muxer: "none", "created", "started"
    startCalls,   \* per muxer: the calls of its Start made so far
    muxPrefix,    \* per muxer: its Prefix
    muxWrites,    \* per muxer: the WriteH26x / WriteMPEG4Audio calls made to it
    feedState,    \* per feed: its lifecycle state
    tracks,       \* per feed: the codecs of r.Tracks()
    callbacks,    \* per feed: the codecs with a callback registered
    timeDec,      \* per feed: the decoder its callbacks share
    delivered,    \* per feed: the access units its callbacks were called with
    auCount,      \* access units delivered so far, all feeds
    httpUp,       \* the HTTP server goroutine is started
    lastResp      \* the last request handled and its answer

vars ==
    << udpAddresses, invalidPairs, udpInfo, procState, panicked, mainPc, loopIndex,
       m3u8String, m3u8Writing, bound, wgCount, muxMap, muxState, startCalls, muxPrefix,
       muxWrites, feedState, tracks, callbacks, timeDec, delivered, auCount, httpUp, lastResp >>

Feeds == DOMAIN udpInfo

\* Muxer 0 is the one main creates for itself; muxer i is feed i's.
MainMux == 0

Muxers == {MainMux} \cup Feeds

Codecs == { "H264", "MPEG4Audio" }

NoResp == [path |-> << >>, kind |-> "none", body |-> << >>, mux |-> -1, started |-> FALSE,
           registering |-> FALSE]

Init ==
    /\ udpInfo \in FeedLists
    /\ udpAddresses = FormatUDPAddresses(udpInfo)
    /\ invalidPairs = << >>
    /\ startCalls = [m \in {MainMux} \cup DOMAIN udpInfo |-> 0]
    /\ procState = "running"
    /\ panicked = {}
    /\ mainPc = "muxStart"
    /\ loopIndex = 1
    /\ m3u8String = << >>
    /\ m3u8Writing = FALSE
    /\ bound = {}
    /\ wgCount = 0
    /\ muxMap = << >>
    /\ muxState = [m \in {MainMux} \cup DOMAIN udpInfo |-> IF m = MainMux THEN "created" ELSE "none"]
    /\ muxPrefix = [m \in {MainMux} \cup DOMAIN udpInfo |-> IF m = MainMux THEN Name720 ELSE << >>]
    /\ muxWrites = [m \in {MainMux} \cup DOMAIN udpInfo |-> << >>]
    /\ feedState = [i \in DOMAIN udpInfo |-> "Configured"]
    /\ tracks = [i \in DOMAIN udpInfo |-> {}]
    /\ callbacks = [i \in DOMAIN udpInfo |-> {}]
    /\ timeDec = [i \in DOMAIN udpInfo |-> NilTimeDecoder]
    /\ delivered = [i \in DOMAIN udpInfo |-> << >>]
    /\ auCount = 0
    /\ httpUp = FALSE
    /\ lastResp = NoResp

Running == procState = "running"

\* panic(...) in main: its deferred pc.Close() calls run, the goroutine ends.
MainPanic(cause) ==
    /\ mainPc' = "panicked"
    /\ panicked' = panicked \cup { [who |-> 0, cause |-> cause] }
    /\ bound' = {}

\* panic(...) in feed i's goroutine: its deferred wg.Done() runs, the goroutine ends.
FeedPanic(i, cause) ==
    /\ feedState' = [feedState EXCEPT ![i] = "Failed"]
    /\ wgCount' = wgCount - 1
    /\ panicked' = panicked \cup { [who |-> i, cause |-> cause] }

\* The runtime ends the process on a panic no goroutine recovered.
Crash ==
    /\ Running
    /\ panicked # {}
    /\ procState' = "crashed"
    /\ UNCHANGED << startCalls, udpAddresses, invalidPairs, udpInfo, panicked, mainPc,
                    loopIndex, m3u8String, m3u8Writing, bound, wgCount, muxMap, muxState,
                    muxPrefix, muxWrites, feedState, tracks, callbacks, timeDec, delivered,
                    auCount, httpUp, lastResp >>

\* ------------------------------------------------------------------- main

\* Where main goes after the loop body for entry i - 1.
LoopPc(i) == IF i <= Len(udpInfo) THEN "listen" ELSE "serve"

\* main: m3u8String = "", the main muxer's Start, parseUDPAddresses, make(map).
MainMuxStart ==
    /\ Running
    /\ mainPc = "muxStart"
    /\ \/ /\ muxState' = [muxState EXCEPT ![MainMux] = "started"]
          /\ mainPc' = LoopPc(1)
          /\ UNCHANGED << panicked, bound >>
       \/ /\ MainPanic("muxStart")
          /\ UNCHANGED muxState
    /\ startCalls' = [startCalls EXCEPT ![MainMux] = @ + 1]
    /\ UNCHANGED << udpAddresses, invalidPairs, udpInfo, procState, loopIndex, m3u8String,
                    m3u8Writing, wgCount, muxMap, muxPrefix, muxWrites, feedState, tracks,
                    callbacks, timeDec, delivered, auCount, httpUp, lastResp >>

\* main, loop body up to net.ListenPacket: the entry's block is appended to
\* m3u8String, then the socket is bound or main panics.
MainListenPacket ==
    /\ Running
    /\ mainPc = "listen"
    /\ LET info == udpInfo[loopIndex]
       IN  /\ m3u8String' = m3u8String \o GenerateM3U8String(info.Bandwidth, info.Resolution)
           /\ \/ /\ info.Address \notin bound
                 /\ bound' = bound \cup { info.Address }
                 /\ feedState' = [feedState EXCEPT ![loopIndex] = "SocketBound"]
                 /\ mainPc' = "launch"
                 /\ UNCHANGED panicked
              \/ /\ MainPanic("bind")
                 /\ feedState' = [feedState EXCEPT ![loopIndex] = "Failed"]
    /\ UNCHANGED << startCalls, udpAddresses, invalidPairs, udpInfo, procState, loopIndex,
                    m3u8Writing, wgCount, muxMap, muxState, muxPrefix, muxWrites, tracks,
                    callbacks, timeDec, delivered, auCount, httpUp, lastResp >>

\* muxMap[info.Name] = mux
Register(map, name, mux) == (name :> mux) @@ map

\* MainLaunch with the HTTP server started from inside the loop, before the
\* remaining entries are registered.
MainLaunchServing ==
    /\ Running
    /\ mainPc = "launch"
    /\ LET info == udpInfo[loopIndex]
       IN  /\ wgCount' = wgCount + 1
           /\ muxState' = [muxState EXCEPT ![loopIndex] = "created"]
           /\ muxPrefix' = [muxPrefix EXCEPT ![loopIndex] = info.Name]
           /\ muxMap' = Register(muxMap, info.Name, loopIndex)
           /\ feedState' = [feedState EXCEPT ![loopIndex] = "Launched"]
    /\ loopIndex' = loopIndex + 1
    /\ mainPc' = LoopPc(loopIndex + 1)
    /\ httpUp' = TRUE
    /\ UNCHANGED << startCalls, udpAddresses, invalidPairs, udpInfo, procState, panicked,
                    m3u8String, m3u8Writing, bound, muxWrites, tracks, callbacks, timeDec,
                    delivered, auCount, lastResp >>

\* main, rest of the loop body: wg.Add(1), the feed's muxer is created and put
\* in muxMap, the feed's goroutine is started.
MainLaunch ==
    /\ Running
    /\ mainPc = "launch"
    /\ LET info == udpInfo[loopIndex]
       IN  /\ wgCount' = wgCount + 1
           /\ muxState' = [muxState EXCEPT ![loopIndex] = "created"]
           /\ muxPrefix' = [muxPrefix EXCEPT ![loopIndex] = info.Name]
           /\ muxMap' = Register(muxMap, info.Name, loopIndex)
           /\ feedState' = [feedState EXCEPT ![loopIndex] = "Launched"]
    /\ loopIndex' = loopIndex + 1
    /\ mainPc' = LoopPc(loopIndex + 1)
    /\ UNCHANGED << startCalls, udpAddresses, invalidPairs, udpInfo, procState, panicked,
                    m3u8String, m3u8Writing, bound, muxWrites, tracks, callbacks, timeDec,
                    delivered, auCount, httpUp, lastResp >>

\* main reaches go s.ListenAndServe() once the loop over udpInfo is over.
AtListenAndServe == mainPc = "serve"

\* main: go s.ListenAndServe()
MainListenAndServe ==
    /\ Running
    /\ AtListenAndServe
    /\ httpUp' = TRUE
    /\ mainPc' = "manifest"
    /\ UNCHANGED << startCalls, udpAddresses, invalidPairs, udpInfo, procState, panicked,
                    loopIndex, m3u8String, m3u8Writing, bound, wgCount, muxMap, muxState,
                    muxPrefix, muxWrites, feedState, tracks, callbacks, timeDec, delivered,
                    auCount, lastResp >>

\* main: m3u8String = header + m3u8String, the store begins.
MainWriteM3u8Begin ==
    /\ Running
    /\ mainPc = "manifest"
    /\ m3u8Writing' = TRUE
    /\ mainPc' = "manifestStore"
    /\ UNCHANGED << startCalls, udpAddresses, invalidPairs, udpInfo, procState, panicked,
                    loopIndex, m3u8String, bound, wgCount, muxMap, muxState, muxPrefix,
                    muxWrites, feedState, tracks, callbacks, timeDec, delivered, auCount,
                    httpUp, lastResp >>

\* main: m3u8String = header + m3u8String, the store is done.
MainWriteM3u8End ==
    /\ Running
    /\ mainPc = "manifestStore"
    /\ m3u8String' = header \o m3u8String
    /\ m3u8Writing' = FALSE
    /\ mainPc' = "wait"
    /\ UNCHANGED << startCalls, udpAddresses, invalidPairs, udpInfo, procState, panicked,
                    loopIndex, bound, wgCount, muxMap, muxState, muxPrefix, muxWrites,
                    feedState, tracks, callbacks, timeDec, delivered, auCount, httpUp,
                    lastResp >>

\* main: wg.Wait() returns, main returns (its deferred pc.Close() calls run)
\* and the process exits.
MainWait ==
    /\ Running
    /\ mainPc = "wait"
    /\ wgCount = 0
    /\ mainPc' = "returned"
    /\ procState' = "exited"
    /\ bound' = {}
    /\ UNCHANGED << startCalls, udpAddresses, invalidPairs, udpInfo, panicked, loopIndex,
                    m3u8String, m3u8Writing, wgCount, muxMap, muxState, muxPrefix, muxWrites,
                    feedState, tracks, callbacks, timeDec, delivered, auCount, httpUp,
                    lastResp >>

\* ------------------------------------------------------ setupMPEGTSReader

\* ReaderMuxStart with the error of mux.Start() not tested: the reader is set
\* up whether or not the muxer started.
ReaderMuxStartErrorIgnored(i) ==
    /\ Running
    /\ feedState[i] = "Launched"
    /\ \/ /\ muxState' = [muxState EXCEPT ![i] = "started"]
          /\ feedState' = [feedState EXCEPT ![i] = "PackagerStarted"]
          /\ UNCHANGED << wgCount, panicked >>
       \/ /\ feedState' = [feedState EXCEPT ![i] = "PackagerStarted"]
          /\ UNCHANGED << muxState, wgCount, panicked >>
    /\ startCalls' = [startCalls EXCEPT ![i] = @ + 1]
    /\ UNCHANGED << udpAddresses, invalidPairs, udpInfo, procState, mainPc, loopIndex,
                    m3u8String, m3u8Writing, bound, muxMap, muxPrefix, muxWrites, tracks,
                    callbacks, timeDec, delivered, auCount, httpUp, lastResp >>

\* ReaderMuxStart with the muxer taken from muxMap by the feed's name, not
\* passed to the goroutine by main.
ReaderMuxStartByName(i) ==
    /\ Running
    /\ feedState[i] = "Launched"
    /\ LET mux == muxMap[udpInfo[i].Name]
       IN  /\ \/ /\ muxState' = [muxState EXCEPT ![mux] = "started"]
                 /\ feedState' = [feedState EXCEPT ![i] = "PackagerStarted"]
                 /\ UNCHANGED << wgCount, panicked >>
              \/ /\ FeedPanic(i, "muxStart")
                 /\ UNCHANGED muxState
           /\ startCalls' = [startCalls EXCEPT ![mux] = @ + 1]
    /\ UNCHANGED << udpAddresses, invalidPairs, udpInfo, procState, mainPc, loopIndex,
                    m3u8String, m3u8Writing, bound, muxMap, muxPrefix, muxWrites, tracks,
                    callbacks, timeDec, delivered, auCount, httpUp, lastResp >>

\* setupMPEGTSReader: mux.Start(), panic on its error.
ReaderMuxStart(i) ==
    /\ Running
    /\ feedState[i] = "Launched"
    /\ \/ /\ muxState' = [muxState EXCEPT ![i] = "started"]
          /\ feedState' = [feedState EXCEPT ![i] = "PackagerStarted"]
          /\ UNCHANGED << wgCount, panicked >>
       \/ /\ FeedPanic(i, "muxStart")
          /\ UNCHANGED muxState
    /\ startCalls' = [startCalls EXCEPT ![i] = @ + 1]
    /\ UNCHANGED << udpAddresses, invalidPairs, udpInfo, procState, mainPc, loopIndex,
                    m3u8String, m3u8Writing, bound, muxMap, muxPrefix, muxWrites, tracks,
                    callbacks, timeDec, delivered, auCount, httpUp, lastResp >>

\* setupMPEGTSReader: mpegts.NewReader reads the stream up to its track list,
\* panic on its error.
ReaderNewReader(i) ==
    /\ Running
    /\ feedState[i] = "PackagerStarted"
    /\ \/ /\ \E found \in SUBSET Codecs : tracks' = [tracks EXCEPT ![i] = found]
          /\ feedState' = [feedState EXCEPT ![i] = "ReaderAttached"]
          /\ UNCHANGED << wgCount, panicked >>
       \/ /\ FeedPanic(i, "newReader")
          /\ UNCHANGED tracks
    /\ UNCHANGED << startCalls, udpAddresses, invalidPairs, udpInfo, procState, mainPc,
                    loopIndex, m3u8String, m3u8Writing, bound, muxMap, muxState, muxPrefix,
                    muxWrites, callbacks, timeDec, delivered, auCount, httpUp, lastResp >>

\* setupMPEGTSReader: the loop over r.Tracks() registers the callbacks, then
\* panic("H264 track not found") unless an H264 track was seen; the read loop
\* is entered after that.
ReaderFindTracks(i) ==
    /\ Running
    /\ feedState[i] = "ReaderAttached"
    /\ callbacks' = [callbacks EXCEPT ![i] = tracks[i] \cap Codecs]
    /\ LET found == "H264" \in tracks[i]
       IN  \/ /\ found
              /\ feedState' = [feedState EXCEPT ![i] = "Ingesting"]
              /\ UNCHANGED << wgCount, panicked >>
           \/ /\ ~found
              /\ FeedPanic(i, "noVideo")
    /\ UNCHANGED << startCalls, udpAddresses, invalidPairs, udpInfo, procState, mainPc,
                    loopIndex, m3u8String, m3u8Writing, bound, muxMap, muxState, muxPrefix,
                    muxWrites, tracks, timeDec, delivered, auCount, httpUp, lastResp >>

\* LazyTimeDecoder without the nil test: a new decoder on every call.
LazyTimeDecoderAlwaysNew(dec, rawPTS) == NewTimeDecoder(rawPTS)

\* if timeDec == nil { timeDec = mpegts.NewTimeDecoder(rawPTS) }; the decoder
\* the callback then calls Decode on.
LazyTimeDecoder(dec, rawPTS) == IF dec.alloc THEN dec ELSE NewTimeDecoder(rawPTS)

\* The call the callback makes to the muxer.
WriteCall(call, pts, au) == [call |-> call, pts |-> pts, au |-> au]

\* OnDataH26x with timeDec declared once for the program, not once per call
\* of setupMPEGTSReader: every feed decodes with the same decoder.
OnDataH26xSharedTimeDec(i, rawPTS, au) ==
    LET dec == Decode(LazyTimeDecoder(timeDec[1], rawPTS), rawPTS)
    IN  /\ timeDec' = [timeDec EXCEPT ![1] = dec]
        /\ muxWrites' = [muxWrites EXCEPT ![i] = Append(@, WriteCall("WriteH26x", dec.tsOverall, au))]

\* The callback registered with r.OnDataH26x: decode the time, mux.WriteH26x.
OnDataH26x(i, rawPTS, au) ==
    LET dec == Decode(LazyTimeDecoder(timeDec[i], rawPTS), rawPTS)
    IN  /\ timeDec' = [timeDec EXCEPT ![i] = dec]
        /\ muxWrites' = [muxWrites EXCEPT ![i] = Append(@, WriteCall("WriteH26x", dec.tsOverall, au))]

\* OnDataMPEG4Audio with rawPTS, not pts, passed to mux.WriteMPEG4Audio.
OnDataMPEG4AudioRawPTS(i, rawPTS, au) ==
    LET dec == Decode(LazyTimeDecoder(timeDec[i], rawPTS), rawPTS)
    IN  /\ timeDec' = [timeDec EXCEPT ![i] = dec]
        /\ muxWrites' = [muxWrites EXCEPT ![i] = Append(@, WriteCall("WriteMPEG4Audio", rawPTS, au))]

\* OnDataMPEG4Audio without its call of mux.WriteMPEG4Audio.
OnDataMPEG4AudioNoWrite(i, rawPTS, au) ==
    LET dec == Decode(LazyTimeDecoder(timeDec[i], rawPTS), rawPTS)
    IN  /\ timeDec' = [timeDec EXCEPT ![i] = dec]
        /\ UNCHANGED muxWrites

\* The callback registered with r.OnDataMPEG4Audio: decode the time,
\* mux.WriteMPEG4Audio.
OnDataMPEG4Audio(i, rawPTS, au) ==
    LET dec == Decode(LazyTimeDecoder(timeDec[i], rawPTS), rawPTS)
    IN  /\ timeDec' = [timeDec EXCEPT ![i] = dec]
        /\ muxWrites' = [muxWrites EXCEPT ![i] = Append(@, WriteCall("WriteMPEG4Audio", dec.tsOverall, au))]

\* r.Read() demuxes one access unit of a track with a callback and calls it.
ReadAccessUnit(i, codec, rawPTS, budget) ==
    /\ Running
    /\ feedState[i] = "Ingesting"
    /\ auCount < budget
    /\ codec \in callbacks[i]
    /\ auCount' = auCount + 1
    /\ delivered' = [delivered EXCEPT ![i] =
                        Append(@, [codec |-> codec, rawPTS |-> rawPTS, au |-> auCount + 1])]
    /\ IF codec = "H264"
       THEN OnDataH26x(i, rawPTS, auCount + 1)
       ELSE OnDataMPEG4Audio(i, rawPTS, auCount + 1)
    /\ UNCHANGED << startCalls, udpAddresses, invalidPairs, udpInfo, procState, panicked,
                    mainPc, loopIndex, m3u8String, m3u8Writing, bound, wgCount, muxMap,
                    muxState, muxPrefix, feedState, tracks, callbacks, httpUp, lastResp >>

\* The read loop, r.Read() returns nil: one more access unit went through.
ReaderRead(i) ==
    \E codec \in Codecs, rawPTS \in RawSamples : ReadAccessUnit(i, codec, rawPTS, MaxAUs)

\* The read loop, r.Read() returns an error: panic(err).
ReaderReadError(i) ==
    /\ Running
    /\ feedState[i] = "Ingesting"
    /\ FeedPanic(i, "read")
    /\ UNCHANGED << startCalls, udpAddresses, invalidPairs, udpInfo, procState, mainPc,
                    loopIndex, m3u8String, m3u8Writing, bound, muxMap, muxState, muxPrefix,
                    muxWrites, tracks, callbacks, timeDec, delivered, auCount, httpUp,
                    lastResp >>

\* --------------------------------------------------------- handleM3u8Urls

VideoM3u8Path == << "/", "video.m3u8" >>

RootPath == << "/" >>

\* A path with the name of one variant in it.
Path480 == << "/", "480p", "_", "stream.m3u8" >>

Path720 == << "/", "720p", "_", "seg1.mp4" >>

\* A path with the names of two variants in it.
PathBoth == << "/", "480p", "_", "720p", ".m3u8" >>

\* A path with no name of a variant in it.
PathNone == << "/", "favicon.ico" >>

\* The paths clients ask for.
RequestPaths == { VideoM3u8Path, RootPath, Path720 }

\* Paths that reach the lookup in muxMap.
LookupPaths == { Path480, Path720, PathBoth, PathNone }

\* //go:embed index.html
index == << "index.html" >>

\* w.Write([]byte(m3u8String)): what a read of m3u8String can return. A read
\* that overlaps main's store races with it.
ReadM3u8String ==
    IF m3u8Writing THEN { m3u8String, header \o m3u8String, TornString } ELSE { m3u8String }

\* main is still in its loop over udpInfo, where it writes muxMap.
Registering == mainPc \in { "muxStart", "listen", "launch" }

\* handleM3u8Urls with the test of strings.Contains left out of its loop over
\* muxMap.
handleM3u8UrlsAnyMux(path) ==
    /\ Running
    /\ httpUp
    /\ \/ /\ path = VideoM3u8Path
          /\ \E body \in ReadM3u8String :
                lastResp' = [NoResp EXCEPT !.path = path, !.kind = "manifest", !.body = body]
       \/ /\ path # VideoM3u8Path
          /\ path = RootPath
          /\ lastResp' = [NoResp EXCEPT !.path = path, !.kind = "index", !.body = index]
       \/ /\ path # VideoM3u8Path
          /\ path # RootPath
          /\ \E resolution \in DOMAIN muxMap :
                /\ lastResp' = [NoResp EXCEPT !.path = path, !.kind = "handle",
                                              !.mux = muxMap[resolution],
                                              !.started = (muxState[muxMap[resolution]] = "started"),
                                              !.registering = Registering]
       \/ /\ path # VideoM3u8Path
          /\ path # RootPath
          /\ \A resolution \in DOMAIN muxMap : ~Contains(path, resolution)
          /\ lastResp' = [NoResp EXCEPT !.path = path, !.kind = "notfound",
                                        !.registering = Registering]
    /\ UNCHANGED << startCalls, udpAddresses, invalidPairs, udpInfo, procState, panicked,
                    mainPc, loopIndex, m3u8String, m3u8Writing, bound, wgCount, muxMap,
                    muxState, muxPrefix, muxWrites, feedState, tracks, callbacks, timeDec,
                    delivered, auCount, httpUp >>

\* The handler main hands to http.Server, called with one request.
handleM3u8Urls(path) ==
    /\ Running
    /\ httpUp
    /\ \/ /\ path = VideoM3u8Path
          /\ \E body \in ReadM3u8String :
                lastResp' = [NoResp EXCEPT !.path = path, !.kind = "manifest", !.body = body]
       \/ /\ path # VideoM3u8Path
          /\ path = RootPath
          /\ lastResp' = [NoResp EXCEPT !.path = path, !.kind = "index", !.body = index]
       \/ /\ path # VideoM3u8Path
          /\ path # RootPath
          /\ \E resolution \in DOMAIN muxMap :
                /\ Contains(path, resolution)
                /\ lastResp' = [NoResp EXCEPT !.path = path, !.kind = "handle",
                                              !.mux = muxMap[resolution],
                                              !.started = (muxState[muxMap[resolution]] = "started"),
                                              !.registering = Registering]
       \/ /\ path # VideoM3u8Path
          /\ path # RootPath
          /\ \A resolution \in DOMAIN muxMap : ~Contains(path, resolution)
          /\ lastResp' = [NoResp EXCEPT !.path = path, !.kind = "notfound",
                                        !.registering = Registering]
    /\ UNCHANGED << startCalls, udpAddresses, invalidPairs, udpInfo, procState, panicked,
                    mainPc, loopIndex, m3u8String, m3u8Writing, bound, wgCount, muxMap,
                    muxState, muxPrefix, muxWrites, feedState, tracks, callbacks, timeDec,
                    delivered, auCount, httpUp >>

\* ---------------------------------------------------------- specification

Next ==
    \/ MainMuxStart
    \/ MainListenPacket
    \/ MainLaunch
    \/ MainListenAndServe
    \/ MainWriteM3u8Begin
    \/ MainWriteM3u8End
    \/ MainWait
    \/ Crash
    \/ \E i \in Feeds : ReaderMuxStart(i)
    \/ \E i \in Feeds : ReaderNewReader(i)
    \/ \E i \in Feeds : ReaderFindTracks(i)
    \/ \E i \in Feeds : ReaderRead(i)
    \/ \E i \in Feeds : ReaderReadError(i)
    \/ \E path \in RequestPaths : handleM3u8Urls(path)

Spec == Init /\ [][Next]_vars

\* ---------------------------------------- one feed, the whole raw PTS range

\* The program with one feed that has an H264 track only, after main reached
\* wg.Wait() and the feed its read loop.
InitIngesting ==
    /\ udpInfo = << UDPAddressInfo(<< ":9000" >>, Name480, << "640", "x", "360" >>, << "200000" >>) >>
    /\ udpAddresses = FormatUDPAddresses(udpInfo)
    /\ invalidPairs = << >>
    /\ startCalls = [m \in {MainMux, 1} |-> 1]
    /\ procState = "running"
    /\ panicked = {}
    /\ mainPc = "wait"
    /\ loopIndex = 2
    /\ m3u8String = header \o StreamInfBlocks(udpInfo)
    /\ m3u8Writing = FALSE
    /\ bound = { << ":9000" >> }
    /\ wgCount = 1
    /\ muxMap = (Name480 :> 1)
    /\ muxState = [m \in {MainMux, 1} |-> "started"]
    /\ muxPrefix = [m \in {MainMux, 1} |-> IF m = MainMux THEN Name720 ELSE Name480]
    /\ muxWrites = [m \in {MainMux, 1} |-> << >>]
    /\ feedState = [i \in {1} |-> "Ingesting"]
    /\ tracks = [i \in {1} |-> { "H264" }]
    /\ callbacks = [i \in {1} |-> { "H264" }]
    /\ timeDec = [i \in {1} |-> NilTimeDecoder]
    /\ delivered = [i \in {1} |-> << >>]
    /\ auCount = 0
    /\ httpUp = TRUE
    /\ lastResp = NoResp

\* The read loop of that feed, with any raw PTS the clock can show.
ReaderReadAnyPTS == \E rawPTS \in 0..(Modulus - 1) : ReadAccessUnit(1, "H264", rawPTS, MaxSamples)

SpecNormalizer == InitIngesting /\ [][ReaderReadAnyPTS]_vars

\* ------------------------------------------------- the single-feed program

\* The one feed of the single-feed program: the -udp address, "1280x720" as
\* its name.
SingleFeed ==
    UDPAddressInfo(<< "localhost:9000" >>, << "1280", "x", "720" >>, << "1280", "x", "720" >>,
                   << "1000000" >>)

InitSingle ==
    /\ udpInfo = << SingleFeed >>
    /\ udpAddresses = SingleFeed.Address
    /\ invalidPairs = << >>
    /\ startCalls = [m \in {MainMux, 1} |-> 0]
    /\ procState = "running"
    /\ panicked = {}
    /\ mainPc = "muxStart"
    /\ loopIndex = 1
    /\ m3u8String = << >>
    /\ m3u8Writing = FALSE
    /\ bound = {}
    /\ wgCount = 0
    /\ muxMap = << >>
    /\ muxState = [m \in {MainMux, 1} |-> IF m = MainMux THEN "created" ELSE "none"]
    /\ muxPrefix = [m \in {MainMux, 1} |-> << >>]
    /\ muxWrites = [m \in {MainMux, 1} |-> << >>]
    /\ feedState = [i \in {1} |-> "Configured"]
    /\ tracks = [i \in {1} |-> {}]
    /\ callbacks = [i \in {1} |-> {}]
    /\ timeDec = [i \in {1} |-> NilTimeDecoder]
    /\ delivered = [i \in {1} |-> << >>]
    /\ auCount = 0
    /\ httpUp = FALSE
    /\ lastResp = NoResp

\* panic(...) inside setupMPEGTSReader, which main calls itself.
SinglePanic(cause) ==
    /\ MainPanic(cause)
    /\ feedState' = [feedState EXCEPT ![1] = "Failed"]

\* main: the main muxer's Start.
SingleMainMuxStart ==
    /\ Running
    /\ mainPc = "muxStart"
    /\ \/ /\ muxState' = [muxState EXCEPT ![MainMux] = "started"]
          /\ mainPc' = "listen"
          /\ UNCHANGED << panicked, bound >>
       \/ /\ MainPanic("muxStart")
          /\ UNCHANGED muxState
    /\ startCalls' = [startCalls EXCEPT ![MainMux] = @ + 1]
    /\ UNCHANGED << udpAddresses, invalidPairs, udpInfo, procState, loopIndex, m3u8String,
                    m3u8Writing, wgCount, muxMap, muxPrefix, muxWrites, feedState, tracks,
                    callbacks, timeDec, delivered, auCount, httpUp, lastResp >>

\* main: the manifest of the one variant, then net.ListenPacket.
SingleMainListenPacket ==
    /\ Running
    /\ mainPc = "listen"
    /\ m3u8String' = header \o GenerateM3U8StringSingle(<< "1000000" >>, << "1280", "x", "720" >>)
    /\ \/ /\ bound' = { SingleFeed.Address }
          /\ feedState' = [feedState EXCEPT ![1] = "SocketBound"]
          /\ mainPc' = "reader"
          /\ UNCHANGED panicked
       \/ SinglePanic("bind")
    /\ UNCHANGED << startCalls, udpAddresses, invalidPairs, udpInfo, procState, loopIndex,
                    m3u8Writing, wgCount, muxMap, muxState, muxPrefix, muxWrites, tracks,
                    callbacks, timeDec, delivered, auCount, httpUp, lastResp >>

\* setupMPEGTSReader: the feed's muxer is created and started.
SingleReaderMuxStart ==
    /\ Running
    /\ mainPc = "reader"
    /\ feedState[1] = "SocketBound"
    /\ muxPrefix' = [muxPrefix EXCEPT ![1] = SingleFeed.Name]
    /\ \/ /\ muxState' = [muxState EXCEPT ![1] = "started"]
          /\ feedState' = [feedState EXCEPT ![1] = "PackagerStarted"]
          /\ UNCHANGED << mainPc, panicked, bound >>
       \/ /\ SinglePanic("muxStart")
          /\ muxState' = [muxState EXCEPT ![1] = "created"]
    /\ startCalls' = [startCalls EXCEPT ![1] = @ + 1]
    /\ UNCHANGED << udpAddresses, invalidPairs, udpInfo, procState, loopIndex, m3u8String,
                    m3u8Writing, wgCount, muxMap, muxWrites, tracks, callbacks, timeDec,
                    delivered, auCount, httpUp, lastResp >>

\* setupMPEGTSReader: mpegts.NewReader.
SingleReaderNewReader ==
    /\ Running
    /\ feedState[1] = "PackagerStarted"
    /\ \/ /\ \E found \in SUBSET Codecs : tracks' = [tracks EXCEPT ![1] = found]
          /\ feedState' = [feedState EXCEPT ![1] = "ReaderAttached"]
          /\ UNCHANGED << mainPc, panicked, bound >>
       \/ /\ SinglePanic("newReader")
          /\ UNCHANGED tracks
    /\ UNCHANGED << startCalls, udpAddresses, invalidPairs, udpInfo, procState, loopIndex,
                    m3u8String, m3u8Writing, wgCount, muxMap, muxState, muxPrefix, muxWrites,
                    callbacks, timeDec, delivered, auCount, httpUp, lastResp >>

\* setupMPEGTSReader: the loop over r.Tracks() registers the H264 callback and
\* leaves at the first H264 track; the read loop follows at once (the test of
\* found stands after the read loop, which never ends).
SingleReaderFindTracks ==
    /\ Running
    /\ feedState[1] = "ReaderAttached"
    /\ callbacks' = [callbacks EXCEPT ![1] = tracks[1] \cap { "H264" }]
    /\ feedState' = [feedState EXCEPT ![1] = "Ingesting"]
    /\ UNCHANGED << startCalls, udpAddresses, invalidPairs, udpInfo, procState, panicked,
                    mainPc, loopIndex, m3u8String, m3u8Writing, bound, wgCount, muxMap,
                    muxState, muxPrefix, muxWrites, tracks, timeDec, delivered, auCount,
                    httpUp, lastResp >>

\* The read loop, r.Read() returns nil.
SingleReaderRead ==
    \E rawPTS \in 0..(Modulus - 1) : ReadAccessUnit(1, "H264", rawPTS, MaxSamples)

\* The read loop, r.Read() returns an error: panic(err).
SingleReaderReadError ==
    /\ Running
    /\ feedState[1] = "Ingesting"
    /\ SinglePanic("read")
    /\ UNCHANGED << startCalls, udpAddresses, invalidPairs, udpInfo, procState, loopIndex,
                    m3u8String, m3u8Writing, wgCount, muxMap, muxState, muxPrefix, muxWrites,
                    tracks, callbacks, timeDec, delivered, auCount, httpUp, lastResp >>

NextSingle ==
    \/ SingleMainMuxStart
    \/ SingleMainListenPacket
    \/ SingleReaderMuxStart
    \/ SingleReaderNewReader
    \/ SingleReaderFindTracks
    \/ SingleReaderRead
    \/ SingleReaderReadError
    \/ Crash

SpecSingle == InitSingle /\ [][NextSingle]_vars

\* ------------------------------------- the multi-feed program without muxMap

\* The program of the second source file: main starts one goroutine per feed,
\* setupMPEGTSReader creates the feed's muxer itself, no HTTP server is
\* started. m3u8String holds main's local string and, from the call of
\* mux.GenerateMainManifest on, the text handed to that call.

\* Where main goes after the loop body for entry i - 1.
NoMapLoopPc(i) == IF i <= Len(udpInfo) THEN "listen" ELSE "manifest"

\* main: the main muxer's Start, parseUDPAddresses.
NoMapMainMuxStart ==
    /\ Running
    /\ mainPc = "muxStart"
    /\ \/ /\ muxState' = [muxState EXCEPT ![MainMux] = "started"]
          /\ mainPc' = NoMapLoopPc(1)
          /\ UNCHANGED << panicked, bound >>
       \/ /\ MainPanic("muxStart")
          /\ UNCHANGED muxState
    /\ startCalls' = [startCalls EXCEPT ![MainMux] = @ + 1]
    /\ UNCHANGED << udpAddresses, invalidPairs, udpInfo, procState, loopIndex, m3u8String,
                    m3u8Writing, wgCount, muxMap, muxPrefix, muxWrites, feedState, tracks,
                    callbacks, timeDec, delivered, auCount, httpUp, lastResp >>

\* main, loop body up to net.ListenPacket.
NoMapMainListenPacket ==
    /\ Running
    /\ mainPc = "listen"
    /\ LET info == udpInfo[loopIndex]
       IN  /\ m3u8String' = m3u8String \o GenerateM3U8StringSingle(info.Bandwidth, info.Resolution)
           /\ \/ /\ info.Address \notin bound
                 /\ bound' = bound \cup { info.Address }
                 /\ feedState' = [feedState EXCEPT ![loopIndex] = "SocketBound"]
                 /\ mainPc' = "launch"
                 /\ UNCHANGED panicked
              \/ /\ MainPanic("bind")
                 /\ feedState' = [feedState EXCEPT ![loopIndex] = "Failed"]
    /\ UNCHANGED << startCalls, udpAddresses, invalidPairs, udpInfo, procState, loopIndex,
                    m3u8Writing, wgCount, muxMap, muxState, muxPrefix, muxWrites, tracks,
                    callbacks, timeDec, delivered, auCount, httpUp, lastResp >>

\* main, rest of the loop body: wg.Add(1), the feed's goroutine is started.
NoMapMainLaunch ==
    /\ Running
    /\ mainPc = "launch"
    /\ wgCount' = wgCount + 1
    /\ feedState' = [feedState EXCEPT ![loopIndex] = "Launched"]
    /\ loopIndex' = loopIndex + 1
    /\ mainPc' = NoMapLoopPc(loopIndex + 1)
    /\ UNCHANGED << startCalls, udpAddresses, invalidPairs, udpInfo, procState, panicked,
                    m3u8String, m3u8Writing, bound, muxMap, muxState, muxPrefix, muxWrites,
                    tracks, callbacks, timeDec, delivered, auCount, httpUp, lastResp >>

\* main, after the loop: m3u8String += GenerateM3U8String("1000000",
\* "1280x720"), mux.GenerateMainManifest(header + m3u8String).
NoMapMainManifest ==
    /\ Running
    /\ mainPc = "manifest"
    /\ m3u8String' = header \o m3u8String
                     \o GenerateM3U8StringSingle(<< "1000000" >>, << "1280", "x", "720" >>)
    /\ mainPc' = "wait"
    /\ UNCHANGED << startCalls, udpAddresses, invalidPairs, udpInfo, procState, panicked,
                    loopIndex, m3u8Writing, bound, wgCount, muxMap, muxState, muxPrefix,
                    muxWrites, feedState, tracks, callbacks, timeDec, delivered, auCount,
                    httpUp, lastResp >>

\* setupMPEGTSReader: the feed's muxer is created with the feed's name as its
\* Prefix, mux.Start(), panic on its error.
NoMapReaderMuxStart(i) ==
    /\ Running
    /\ feedState[i] = "Launched"
    /\ muxPrefix' = [muxPrefix EXCEPT ![i] = udpInfo[i].Name]
    /\ \/ /\ muxState' = [muxState EXCEPT ![i] = "started"]
          /\ feedState' = [feedState EXCEPT ![i] = "PackagerStarted"]
          /\ UNCHANGED << wgCount, panicked >>
       \/ /\ FeedPanic(i, "muxStart")
          /\ muxState' = [muxState EXCEPT ![i] = "created"]
    /\ startCalls' = [startCalls EXCEPT ![i] = @ + 1]
    /\ UNCHANGED << udpAddresses, invalidPairs, udpInfo, procState, mainPc, loopIndex,
                    m3u8String, m3u8Writing, bound, muxMap, muxWrites, tracks, callbacks,
                    timeDec, delivered, auCount, httpUp, lastResp >>

\* The reader, the callbacks and the read loop are those of the program with
\* muxMap, line for line.
NextNoMap ==
    \/ NoMapMainMuxStart
    \/ NoMapMainListenPacket
    \/ NoMapMainLaunch
    \/ NoMapMainManifest
    \/ MainWait
    \/ Crash
    \/ \E i \in Feeds : NoMapReaderMuxStart(i)
    \/ \E i \in Feeds : ReaderNewReader(i)
    \/ \E i \in Feeds : ReaderFindTracks(i)
    \/ \E i \in Feeds : ReaderRead(i)
    \/ \E i \in Feeds : ReaderReadError(i)

SpecNoMap == Init /\ [][NextNoMap]_vars

\* --------------------------------------- the manifest, any resolution text

\* The resolution fields of the -udps records: every text of up to
\* MaxResolutionLen tokens over a number and the separator.
Resolutions == SeqsUpTo({ "640", "x" }, MaxResolutionLen)

\* The k-th record of a list: its own address, name and bandwidth.
NthDescriptor(k, resolution) ==
    UDPAddressInfo(<< ":900" \o ToString(k) >>, << "v" \o ToString(k) >>, resolution,
                   << ToString(k) \o "00000" >>)

\* The -udps lists of up to MaxFeeds records with any of these resolutions.
ManifestLists ==
    { [k \in 1..Len(rs) |-> NthDescriptor(k, rs[k])] : rs \in SeqsUpTo(Resolutions, MaxFeeds) }

InitManifest ==
    /\ udpInfo \in ManifestLists
    /\ udpAddresses = FormatUDPAddresses(udpInfo)
    /\ invalidPairs = << >>
    /\ startCalls = [m \in {MainMux} \cup DOMAIN udpInfo |-> 0]
    /\ procState = "running"
    /\ panicked = {}
    /\ mainPc = "muxStart"
    /\ loopIndex = 1
    /\ m3u8String = << >>
    /\ m3u8Writing = FALSE
    /\ bound = {}
    /\ wgCount = 0
    /\ muxMap = << >>
    /\ muxState = [m \in {MainMux} \cup DOMAIN udpInfo |-> IF m = MainMux THEN "created" ELSE "none"]
    /\ muxPrefix = [m \in {MainMux} \cup DOMAIN udpInfo |-> IF m = MainMux THEN Name720 ELSE << >>]
    /\ muxWrites = [m \in {MainMux} \cup DOMAIN udpInfo |-> << >>]
    /\ feedState = [i \in DOMAIN udpInfo |-> "Configured"]
    /\ tracks = [i \in DOMAIN udpInfo |-> {}]
    /\ callbacks = [i \in DOMAIN udpInfo |-> {}]
    /\ timeDec = [i \in DOMAIN udpInfo |-> NilTimeDecoder]
    /\ delivered = [i \in DOMAIN udpInfo |-> << >>]
    /\ auCount = 0
    /\ httpUp = FALSE
    /\ lastResp = NoResp

\* The main goroutine alone, running ahead of the goroutines it starts.
NextMain ==
    \/ MainMuxStart
    \/ MainListenPacket
    \/ MainLaunch
    \/ MainListenAndServe
    \/ MainWriteM3u8Begin
    \/ MainWriteM3u8End
    \/ MainWait
    \/ Crash

SpecManifest == InitManifest /\ [][NextMain]_vars

\* ---------------------------------------------- parseUDPAddresses, any text

\* The tokens of the -udps values tried exhaustively: a field text and the
\* two separators.
FlagTokens == { "a", "|", "," }

\* A -udps value with a malformed entry between two records.
MixedFlag ==
    << "a", "|", "b", "|", "1280", "x", "720", "|", "500000", ",", "bad", ",",
       "c", "|", "d", "|", "640", "x", "360", "|", "200000" >>

\* The -udps values: every text of up to MaxFlagLen tokens, the mixed value,
\* and the values that list the feeds of the program.
FlagValues ==
    SeqsUpTo(FlagTokens, MaxFlagLen) \cup { MixedFlag }
    \cup { FormatUDPAddresses(infos) : infos \in FeedLists }

\* The program before main calls parseUDPAddresses.
InitParse ==
    /\ udpAddresses \in FlagValues
    /\ invalidPairs = << >>
    /\ udpInfo = << >>
    /\ startCalls = [m \in {MainMux} |-> 0]
    /\ procState = "running"
    /\ panicked = {}
    /\ mainPc = "parse"
    /\ loopIndex = 1
    /\ m3u8String = << >>
    /\ m3u8Writing = FALSE
    /\ bound = {}
    /\ wgCount = 0
    /\ muxMap = << >>
    /\ muxState = [m \in {MainMux} |-> "created"]
    /\ muxPrefix = [m \in {MainMux} |-> Name720]
    /\ muxWrites = [m \in {MainMux} |-> << >>]
    /\ feedState = << >>
    /\ tracks = << >>
    /\ callbacks = << >>
    /\ timeDec = << >>
    /\ delivered = << >>
    /\ auCount = 0
    /\ httpUp = FALSE
    /\ lastResp = NoResp

\* main: udpInfo := parseUDPAddresses(*udpAddresses)
MainParseUDPAddresses ==
    /\ Running
    /\ mainPc = "parse"
    /\ LET parsed == parseUDPAddresses(udpAddresses)
       IN  /\ udpInfo' = parsed.result
           /\ invalidPairs' = parsed.invalid
    /\ mainPc' = "parsed"
    /\ UNCHANGED << startCalls, udpAddresses, procState, panicked, loopIndex, m3u8String,
                    m3u8Writing, bound, wgCount, muxMap, muxState, muxPrefix, muxWrites,
                    feedState, tracks, callbacks, timeDec, delivered, auCount, httpUp,
                    lastResp >>

SpecParse == InitParse /\ [][MainParseUDPAddresses]_vars

\* ------------------------------------------------- the lookup, more paths

\* main, the HTTP server and the start of each feed's muxer, with the readers
\* still waiting in mpegts.NewReader for their streams to begin.
NextLookup ==
    \/ MainMuxStart
    \/ MainListenPacket
    \/ MainLaunch
    \/ MainListenAndServe
    \/ MainWriteM3u8Begin
    \/ MainWriteM3u8End
    \/ MainWait
    \/ Crash
    \/ \E i \in Feeds : ReaderMuxStart(i)
    \/ \E path \in LookupPaths : handleM3u8Urls(path)

SpecLookup == Init /\ [][NextLookup]_vars

\* ----------------------------------------------------------------- claims

\* Feed i's goroutine has been started.
Launched(i) == feedState[i] \notin { "Configured", "SocketBound" }

Terminal == { "Stopped", "Failed" }

\* C1: a read error on a feed ends that feed only; the process is not ended
\* by it.
C1_ReadErrorEndsOnlyItsFeed ==
    (panicked # {} /\ \A p \in panicked : p.cause = "read") => procState # "crashed"

\* C2: a request is dispatched (mux.Handle) only to a muxer whose Start has
\* returned successfully.
C2_DispatchOnlyToStarted == lastResp.kind = "handle" => lastResp.started

\* The master manifest: the header, then every descriptor's block.
CompleteManifest == header \o StreamInfBlocks(udpInfo)

\* C3: every answer to GET /video.m3u8 carries the complete manifest.
C3_ManifestAlwaysComplete == lastResp.kind = "manifest" => lastResp.body = CompleteManifest

\* C4: no lookup in muxMap runs while main can still insert into it, and
\* every entry a lookup can see maps a name to the muxer created with that
\* name as its Prefix.
C4_LookupsSeeWholeRegistry ==
    /\ httpUp => ~Registering
    /\ lastResp.kind \in { "handle", "notfound" } => ~lastResp.registering
    /\ httpUp => \A name \in DOMAIN muxMap :
                    /\ muxMap[name] \in Feeds
                    /\ muxState[muxMap[name]] # "none"
                    /\ muxPrefix[muxMap[name]] = name

\* C4: a request was dispatched through a registry of two entries.
C4_Witness ==
    /\ lastResp.kind = "handle"
    /\ Cardinality(DOMAIN muxMap) = 2

\* C5: the process does not end while a launched feed is in a state that is
\* not terminal.
C5_NoExitBeforeFeedsEnd ==
    procState # "running" => \A i \in Feeds : Launched(i) => feedState[i] \in Terminal

\* C6: a feed whose name is already registered is rejected: the entry of the
\* first feed is kept and the second feed's pipeline is never started.
C6_DuplicateNameRejected ==
    \A i, j \in Feeds :
        (i < j /\ udpInfo[i].Name = udpInfo[j].Name /\ Launched(i))
            => /\ udpInfo[i].Name \in DOMAIN muxMap => muxMap[udpInfo[i].Name] = i
               /\ feedState[j] \notin { "Launched", "PackagerStarted", "ReaderAttached", "Ingesting" }

\* C7: a feed is in its read loop only if its stream has an H264 track.
C7_IngestingOnlyWithVideo ==
    \A i \in Feeds : feedState[i] = "Ingesting" => "H264" \in tracks[i]

\* The presentation times of the write calls made to muxer m, in call order.
Pts(m) == [k \in 1..Len(muxWrites[m]) |-> muxWrites[m][k].pts]

\* The raw PTS values feed i's callbacks were called with, in call order.
Raws(i) == [k \in 1..Len(delivered[i]) |-> delivered[i][k].rawPTS]

\* The raw PTS values of one track of feed i, in call order.
TrackRaws(i, codec) ==
    LET OfTrack(d) == d.codec = codec
        units == SelectSeq(delivered[i], OfTrack)
    IN  [k \in 1..Len(units) |-> units[k].rawPTS]

NonDecreasing(s) == \A k \in 1..(Len(s) - 1) : s[k] <= s[k + 1]

StrictlyIncreasing(s) == \A k \in 1..(Len(s) - 1) : s[k] < s[k + 1]

\* Each value is ahead of the one before it by at most NegativeThreshold
\* ticks of the clock, counted modulo Modulus.
StepwiseForward(s) ==
    \A k \in 1..(Len(s) - 1) : (s[k + 1] - s[k]) % Modulus <= NegativeThreshold

\* The values increase, but for at most one wrap of the clock, after which
\* they stay below the first value.
IncreasingExceptWrap(s) ==
    LET wraps == { k \in 1..(Len(s) - 1) : s[k + 1] <= s[k] }
    IN  /\ Cardinality(wraps) <= 1
        /\ wraps # {} => s[Len(s)] < s[1]

\* C8 as stated: the presentation times written to a muxer are non-decreasing
\* whenever each track's raw PTS values are non-decreasing up to wraparound.
C8_OrderedForPerTrackOrder ==
    \A i \in Feeds :
        (\A codec \in Codecs : StepwiseForward(TrackRaws(i, codec))) => NonDecreasing(Pts(i))

\* C8, amended: the presentation times written to a muxer are non-decreasing
\* whenever the raw PTS values of the feed's access units, video and audio
\* taken together in arrival order, are non-decreasing up to wraparound.
C8_OrderedForArrivalOrder ==
    \A i \in Feeds : StepwiseForward(Raws(i)) => NonDecreasing(Pts(i))

\* C8: a video and an audio unit in forward order were written, the second
\* with the later time.
C8_Witness ==
    \E i \in Feeds :
        /\ Len(muxWrites[i]) = 2
        /\ muxWrites[i][1].call # muxWrites[i][2].call
        /\ StepwiseForward(Raws(i))
        /\ muxWrites[i][1].pts < muxWrites[i][2].pts

\* The write call the callback of a codec makes.
CallOf(codec) == IF codec = "H264" THEN "WriteH26x" ELSE "WriteMPEG4Audio"

\* C9: the write calls made to a feed's muxer are the access units its
\* callbacks were called with, one call each, in the same order.
C9_WritesAreDeliveriesInOrder ==
    \A i \in Feeds :
        /\ Len(muxWrites[i]) = Len(delivered[i])
        /\ \A k \in 1..Len(delivered[i]) :
              /\ muxWrites[i][k].au = delivered[i][k].au
              /\ muxWrites[i][k].call = CallOf(delivered[i][k].codec)

\* C9: a feed delivered an audio unit and then a video unit.
C9_Witness ==
    \E i \in Feeds :
        /\ Len(delivered[i]) = 2
        /\ delivered[i][1].codec = "MPEG4Audio"
        /\ delivered[i][2].codec = "H264"
        /\ Len(muxWrites[i]) = 2

\* The raw PTS values of the example: two before the wrap, one after it.
WrapExample == << Modulus - 10, Modulus - 5, 3 >>

\* C10 as stated: the decoded times are non-decreasing for every raw PTS
\* sequence that increases except for wraparound.
C10_NonDecreasingForIncreasing ==
    IncreasingExceptWrap(Raws(1)) => NonDecreasing(Pts(1))

\* C10, amended: the decoded times are non-decreasing for every raw PTS
\* sequence in which each value is ahead of the one before it by at most
\* NegativeThreshold ticks modulo the clock modulus, and strictly increasing
\* for the example.
C10_NonDecreasingForForwardSteps ==
    /\ StepwiseForward(Raws(1)) => NonDecreasing(Pts(1))
    /\ Raws(1) = WrapExample => StrictlyIncreasing(Pts(1))

\* C10: the example was decoded, to 0, 5 and 13 ticks.
C10_Witness ==
    /\ Raws(1) = WrapExample
    /\ Pts(1) = << 0, 5, 13 >>

\* C11: once the HTTP server is started, a GET / request is answered, with
\* the landing page, whatever state the feeds are in; the process having
\* ended by main's return is left aside.
C11_RootAnsweredWhateverFeeds ==
    /\ (httpUp /\ procState # "exited") => ENABLED handleM3u8Urls(RootPath)
    /\ lastResp.path = RootPath => lastResp.kind = "index"

\* main is past the point where it builds the master manifest.
ManifestBuilt == mainPc \in { "wait", "returned" }

\* The resolution has the form WxH: exactly one "x" token.
ValidResolution(resolution) ==
    Cardinality({ k \in 1..Len(resolution) : resolution[k] = "x" }) = 1

\* The block the master manifest carries for one descriptor: its bandwidth,
\* its resolution, and the link stream_<height>p.m3u8.
ExpectedBlock(info) ==
    LET k == CHOOSE j \in 1..Len(info.Resolution) : info.Resolution[j] = "x"
        height == SubSeq(info.Resolution, k + 1, Len(info.Resolution))
    IN  << "#EXT-X-STREAM-INF:BANDWIDTH=" >> \o info.Bandwidth
        \o << ",AVERAGE-BANDWIDTH=" >> \o info.Bandwidth
        \o << ",CODECS=", "avc1.42c01f", ",RESOLUTION=" >> \o info.Resolution
        \o << ",FRAME-RATE=", "24.000", "\n" >>
        \o << "stream_" >> \o height \o << "p.m3u8\n\n" >>

RECURSIVE ExpectedBlocks(_)
\* One block per descriptor with a valid resolution, in descriptor order.
ExpectedBlocks(infos) ==
    IF infos = << >> THEN << >>
    ELSE (IF ValidResolution(Head(infos).Resolution) THEN ExpectedBlock(Head(infos)) ELSE << >>)
         \o ExpectedBlocks(Tail(infos))

\* C12: the master manifest built at startup is the header followed by one
\* block per descriptor with a valid resolution, in descriptor order, with
\* that descriptor's bandwidth and the link stream_<height>p.m3u8, and by
\* nothing else.
C12_ManifestIsDescriptorBlocks ==
    ManifestBuilt => m3u8String = header \o ExpectedBlocks(udpInfo)

\* The list without the descriptors whose resolution is malformed.
WithoutMalformed(infos) ==
    LET WellFormed(info) == ValidResolution(info.Resolution)
    IN  SelectSeq(infos, WellFormed)

\* C13: GenerateM3U8String emits nothing for a descriptor whose resolution
\* does not contain exactly one "x", and the manifest built from a list is
\* the one built from the list without its malformed descriptors.
C13_MalformedDescriptorSkipped ==
    /\ \A i \in Feeds :
          ~ValidResolution(udpInfo[i].Resolution)
              => GenerateM3U8String(udpInfo[i].Bandwidth, udpInfo[i].Resolution) = << >>
    /\ ManifestBuilt => m3u8String = header \o StreamInfBlocks(WithoutMalformed(udpInfo))

\* C13: a manifest was built from a list that holds a resolution with two
\* "x" before a well-formed one, and carries the block of the second only.
C13_Witness ==
    /\ ManifestBuilt
    /\ Len(udpInfo) = 2
    /\ udpInfo[1].Resolution = << "640", "x", "x" >>
    /\ udpInfo[2].Resolution = << "640", "x", "640" >>
    /\ m3u8String = header \o GenerateM3U8String(udpInfo[2].Bandwidth, udpInfo[2].Resolution)

\* The positions of the separator sep in the text s.
Separators(s, sep) == { k \in 1..Len(s) : s[k] = sep }

\* The position of the n-th separator; 0 before the first, Len(s) + 1 after
\* the last.
NthSeparator(s, sep, n) ==
    IF n = 0 THEN 0
    ELSE IF n > Cardinality(Separators(s, sep)) THEN Len(s) + 1
    ELSE CHOOSE p \in Separators(s, sep) :
            Cardinality({ q \in Separators(s, sep) : q < p }) = n - 1

\* The j-th of the pieces the separators cut the text into.
Piece(s, sep, j) == SubSeq(s, NthSeparator(s, sep, j - 1) + 1, NthSeparator(s, sep, j) - 1)

\* The entries of a comma-separated list; the empty text is the list without
\* entries.
Entries(list) ==
    IF list = << >> THEN << >>
    ELSE [j \in 1..(Cardinality(Separators(list, ",")) + 1) |-> Piece(list, ",", j)]

\* The entry has 4 pipe-delimited fields.
HasFourFields(entry) == Cardinality(Separators(entry, "|")) = 3

HasOtherFieldCount(entry) == ~HasFourFields(entry)

\* The record an entry of 4 fields stands for.
RecordOf(entry) ==
    UDPAddressInfo(Piece(entry, "|", 1), Piece(entry, "|", 2), Piece(entry, "|", 3),
                   Piece(entry, "|", 4))

\* main has called parseUDPAddresses.
Parsed == mainPc = "parsed"

\* C14: for every -udps value parseUDPAddresses returns; its result is the
\* entries of 4 fields, in input order, as address, name, resolution and
\* bandwidth; every other entry is reported once; and the text that lists the
\* records parsed from a value without malformed entries parses to the same
\* records.
C14_ParseKeepsFourFieldEntries ==
    LET entries == Entries(udpAddresses)
        records == SelectSeq(entries, HasFourFields)
    IN  /\ mainPc = "parse" => ENABLED MainParseUDPAddresses
        /\ Parsed =>
              /\ udpInfo = [k \in 1..Len(records) |-> RecordOf(records[k])]
              /\ invalidPairs = SelectSeq(entries, HasOtherFieldCount)
              /\ invalidPairs = << >>
                    => parseUDPAddresses(FormatUDPAddresses(udpInfo)).result = udpInfo

\* C14: the value with a malformed entry between two records was parsed, to
\* the two records and one report.
C14_Witness ==
    /\ Parsed
    /\ udpAddresses = MixedFlag
    /\ udpInfo = << UDPAddressInfo(<< "a" >>, << "b" >>, << "1280", "x", "720" >>, << "500000" >>),
                    UDPAddressInfo(<< "c" >>, << "d" >>, << "640", "x", "360" >>, << "200000" >>) >>
    /\ invalidPairs = << << "bad" >> >>

\* The registered names the path contains.
NamesIn(path) == { name \in DOMAIN muxMap : Contains(path, name) }

\* The registry of the example: 480p is feed 1's muxer, 720p is feed 2's.
ExampleRegistry == DOMAIN muxMap = { Name480, Name720 } /\ muxMap[Name480] = 1 /\ muxMap[Name720] = 2

Phase(state) ==
    CASE state = "Configured" -> 1
      [] state \in { "SocketBound", "Launched" } -> 2
      [] state \in { "PackagerStarted", "ReaderAttached" } -> 3
      [] state = "Ingesting" -> 4
      [] state \in Terminal -> 5

\* C16: a feed moves from a lifecycle state to the next one or to a terminal
\* state, and in no other way; its socket is bound when it becomes SocketBound,
\* its muxer is put in muxMap before its goroutine runs, and from
\* PackagerStarted on its muxer has started and its name is registered.
C16_LifecycleInOrder ==
    /\ [](\A i \in Feeds :
             Phase(feedState[i]) \in { 3, 4 }
                 => muxState[i] = "started" /\ udpInfo[i].Name \in DOMAIN muxMap)
    /\ [][\A i \in Feeds :
             LET from == Phase(feedState[i])
                 to   == Phase(feedState'[i])
             IN  /\ to = from \/ (from < 4 /\ to = from + 1) \/ (from < 5 /\ to = 5)
                 /\ (from = 1 /\ to = 2) => udpInfo[i].Address \in bound'
                 /\ (feedState[i] # "Launched" /\ feedState'[i] = "Launched")
                        => muxMap'[udpInfo[i].Name] = i
                 /\ (from = 2 /\ to = 3) => feedState[i] = "Launched"]_vars

\* C16: one feed went through its read loop and failed while the other was
\* in its read loop.
C16_Witness ==
    \E i, j \in Feeds :
        /\ feedState[i] = "Failed"
        /\ delivered[i] # << >>
        /\ feedState[j] = "Ingesting"

\* C17: Start is called at most once on any muxer, the main muxer and the
\* muxers of feeds that share a name included.
C17_StartAtMostOnce == \A m \in Muxers : startCalls[m] <= 1

\* C17: two feeds share a name and the muxer of each has been started, as
\* has the main muxer.
C17_Witness ==
    \E i, j \in Feeds :
        /\ i # j
        /\ udpInfo[i].Name = udpInfo[j].Name
        /\ startCalls[i] = 1 /\ muxState[i] = "started"
        /\ startCalls[j] = 1 /\ muxState[j] = "started"
        /\ startCalls[MainMux] = 1

\* C18: with the registry unchanged, two requests for the same path, one
\* after the other, are dispatched to the same muxer.
C18_SamePathSameMuxer ==
    [][(/\ lastResp.kind = "handle"
        /\ lastResp'.kind = "handle"
        /\ lastResp'.path = lastResp.path
        /\ muxMap' = muxMap)
          => lastResp'.mux = lastResp.mux]_vars

RECURSIVE DecodeFrom(_, _)
\* The times a decoder in state dec returns for the raw PTS values raws.
DecodeFrom(dec, raws) ==
    IF raws = << >> THEN << >>
    ELSE LET next == Decode(dec, Head(raws))
         IN  << next.tsOverall >> \o DecodeFrom(next, Tail(raws))

\* The times a feed's own decoder, created at its first raw PTS value,
\* returns for the feed's raw PTS values.
OwnTimes(raws) ==
    IF raws = << >> THEN << >> ELSE DecodeFrom(NewTimeDecoder(Head(raws)), raws)

\* C19: the presentation times written to a feed's muxer are those its own
\* decoder gives for the feed's own raw PTS values, whatever the other feeds
\* deliver and whenever they do; every unit written to a feed's muxer was
\* delivered by that feed, and none is written to the main muxer.
C19_TimesFromOwnFeedOnly ==
    /\ \A i \in Feeds : Pts(i) = OwnTimes(Raws(i))
    /\ \A i \in Feeds : \A k \in 1..Len(muxWrites[i]) :
          \E j \in 1..Len(delivered[i]) : delivered[i][j].au = muxWrites[i][k].au
    /\ muxWrites[MainMux] = << >>

\* C19: two feeds each delivered one unit, with different raw PTS values, and
\* each wrote it at time 0 to its own muxer.
C19_Witness ==
    \E i, j \in Feeds :
        /\ Raws(i) = << Modulus - 5 >>
        /\ Raws(j) = << 3 >>
        /\ Pts(i) = << 0 >>
        /\ Pts(j) = << 0 >>
        /\ delivered[i][1].au < delivered[j][1].au

====
